---- MODULE Spec2Model ----
(***************************************************************************)
(* Meeting-transcript chat backend: the HTTP handlers of                   *)
(* with_fastapi_backend.py (sessions store) and the conversational engine  *)
(* of chatbot/engine.py (session_memory registry, prompt assembly,         *)
(* respond).                                                               *)
(*                                                                         *)
(* Text is a sequence whose elements are single characters ("w", "{") or,  *)
(* for fixed program text that holds no brace, one multi-character chunk.  *)
(* User-supplied text (transcripts, queries) is always character level.    *)
(*                                                                         *)
(* Python objects that are shared by reference (the per-session dict of    *)
(* `sessions`, the ConversationBufferMemory of `session_memory`) live in   *)
(* two heaps, so that a request suspended at the LLM call keeps the        *)
(* objects it fetched even when the mapping is changed under it.           *)
(***************************************************************************)
EXTENDS Integers, Sequences, FiniteSets, TLC

\* ------------------------------------------------------------- bounds
MaxClock == 4        \* accepted requests explored (each reads the clock once)
MaxConcClock == 3    \* the same, where requests overlap (SpecConc)
MaxInFlight == 2     \* calls suspended at the LLM call at the same time
MaxEngineCalls == 3  \* direct calls of the engine's functions (SpecEngine)

\* --------------------------------------------------- program constants
MinTranscriptLen == 10

None == "None"

\* ------------------------------------------------------------- text
Lower(c) ==
    CASE c = "W" -> "w"
      [] c = "S" -> "s"
      [] c = "D" -> "d"
      [] c = "P" -> "p"
      [] OTHER -> c

LowerStr(s) == [i \in 1..Len(s) |-> Lower(s[i])]

\* Python's `k in s` on strings
Contains(s, k) ==
    \E i \in 1..(Len(s) - Len(k) + 1) : SubSeq(s, i, i + Len(k) - 1) = k

StartsAt(s, i, k) ==
    /\ i + Len(k) - 1 <= Len(s)
    /\ SubSeq(s, i, i + Len(k) - 1) = k

\* the least element of a non-empty set of positions
Least(js) == CHOOSE j \in js : \A k \in js : j <= k

\* str.replace(old, new): left to right, non overlapping, the inserted text
\* is not scanned again
RECURSIVE ReplaceFrom(_, _, _, _)
ReplaceFrom(s, i, old, new) ==
    LET hits == {j \in i..(Len(s) - Len(old) + 1) : s[j] = old[1] /\ StartsAt(s, j, old)}
    IN IF hits = {} THEN SubSeq(s, i, Len(s))
       ELSE SubSeq(s, i, Least(hits) - 1) \o new
            \o ReplaceFrom(s, Least(hits) + Len(old), old, new)

Replace(s, old, new) == ReplaceFrom(s, 1, old, new)

Digit(d) == CASE d = 0 -> "0" [] d = 1 -> "1" [] d = 2 -> "2" [] d = 3 -> "3"
              [] d = 4 -> "4" [] d = 5 -> "5" [] d = 6 -> "6" [] d = 7 -> "7"
              [] d = 8 -> "8" [] d = 9 -> "9"

\* str(n) of a natural number
RECURSIVE DecStr(_)
DecStr(n) == IF n < 10 THEN <<Digit(n)>> ELSE DecStr(n \div 10) \o <<Digit(n % 10)>>

\* ------------------------------------------------- prompt_template
SlotTranscript == <<"{", "t", "r", "a", "n", "s", "c", "r", "i", "p", "t", "}">>
SlotHistory == <<"{", "h", "i", "s", "t", "o", "r", "y", "}">>
SlotInput == <<"{", "i", "n", "p", "u", "t", "}">>

NameHistory == <<"h", "i", "s", "t", "o", "r", "y">>
NameInput == <<"i", "n", "p", "u", "t">>

PHead == <<"You are an expert meeting analyst AI assistant [...] MEETING TRANSCRIPT: ">>
PHistory == <<" CONVERSATION HISTORY: ">>
PQuery == <<" USER QUERY: ">>
PTail == <<" INSTRUCTIONS: [...] Answer the user's question based on the meeting transcript provided above.">>

prompt_template ==
    PHead \o SlotTranscript \o PHistory \o SlotHistory \o PQuery \o SlotInput \o PTail

\* ------------------------------------------------- str.format
FmtFail == [ok |-> FALSE, out |-> <<>>]
FmtCons(prefix, r) == IF r.ok THEN [ok |-> TRUE, out |-> prefix \o r.out] ELSE r

\* index of the first "}" after position i, 0 when there is none
CloseAfter(t, i) ==
    LET js == {j \in (i + 1)..Len(t) : t[j] = "}"}
    IN IF js = {} THEN 0 ELSE Least(js)

\* index of the first brace at or after position i, Len(t) + 1 when there is none
BraceFrom(t, i) ==
    LET js == {j \in i..Len(t) : t[j] = "{" \/ t[j] = "}"}
    IN IF js = {} THEN Len(t) + 1 ELSE Least(js)

\* One left-to-right pass of Python's format-string parser over the template:
\* "{{" and "}}" are escapes, "{name}" is a replacement field, a lone brace is
\* an error; a field other than history/input is rejected (PromptTemplate /
\* ConversationChain validation, or KeyError). Substituted values are copied,
\* never parsed.
RECURSIVE FormatFrom(_, _, _, _)
FormatFrom(t, i, history, input) ==
    IF i > Len(t) THEN [ok |-> TRUE, out |-> <<>>]
    ELSE IF t[i] = "{" THEN
        IF i < Len(t) /\ t[i + 1] = "{"
        THEN FmtCons(<<"{">>, FormatFrom(t, i + 2, history, input))
        ELSE LET j == CloseAfter(t, i)
                 name == SubSeq(t, i + 1, j - 1)
             IN IF j = 0 THEN FmtFail
                ELSE IF name = NameHistory
                     THEN FmtCons(history, FormatFrom(t, j + 1, history, input))
                ELSE IF name = NameInput
                     THEN FmtCons(input, FormatFrom(t, j + 1, history, input))
                ELSE FmtFail
    ELSE IF t[i] = "}" THEN
        IF i < Len(t) /\ t[i + 1] = "}"
        THEN FmtCons(<<"}">>, FormatFrom(t, i + 2, history, input))
        ELSE FmtFail
    ELSE FmtCons(SubSeq(t, i, BraceFrom(t, i) - 1),
                 FormatFrom(t, BraceFrom(t, i), history, input))

Format(t, history, input) == FormatFrom(t, 1, history, input)

\* ------------------------------------------------- values from JSON
\* A JSON number sent where a string is expected (request.json() does not
\* check types). It is truthy, has no .lower(), and str() gives its digits.
JsonNumber == <<"<int 5>">>
IsStr(v) == v # JsonNumber
ToText(v) == IF v = JsonNumber THEN <<"5">> ELSE v

\* ------------------------------------------------- ConversationBufferMemory
Human(content) == [role |-> "human", content |-> content]
AI(content) == [role |-> "ai", content |-> content]

RenderMessage(m) ==
    <<IF m.role = "human" THEN "HumanMessage(content='" ELSE "AIMessage(content='">>
    \o ToText(m.content) \o <<"')">>

\* memory.load_memory_variables with return_messages=True, as the f-string
\* template prints it
RECURSIVE RenderMessages(_)
RenderMessages(ms) ==
    IF ms = <<>> THEN <<>>
    ELSE RenderMessage(Head(ms)) \o RenderMessages(Tail(ms))

RenderHistory(ms) == <<"[">> \o RenderMessages(ms) \o <<"]">>

\* ------------------------------------------------- heaps and mappings
EmptyMap == [x \in {} |-> None]
MapPut(m, k, v) == [x \in DOMAIN m \cup {k} |-> IF x = k THEN v ELSE m[x]]
MapDel(m, k) == [x \in DOMAIN m \ {k} |-> m[x]]
MapRange(m) == {m[x] : x \in DOMAIN m}

FreeMemory == [live |-> FALSE, messages |-> <<>>]
FreeDict == [live |-> FALSE, transcript |-> <<>>, chat_history |-> <<>>,
             created_at |-> 0, last_activity |-> 0]

SessionIds == {"s1", "s2"}
MemIds == 1..(Cardinality(SessionIds) + 1 + MaxInFlight)
DictIds == 1..(Cardinality(SessionIds) + 1 + MaxInFlight)

NewId(heap) == CHOOSE o \in DOMAIN heap : ~heap[o].live /\ \A p \in DOMAIN heap : ~heap[p].live => o <= p

\* ------------------------------------------------- engine.py
UploadFirst == <<"Please upload a meeting transcript first so I can help you analyze it.">>
BootstrapUser == <<"I have uploaded a meeting transcript for analysis. Please help me understand its contents.">>
\* mutant: the acknowledgment states a count that is off by one
BootstrapAIOffByOne(transcript) ==
    <<"I've received and analyzed your meeting transcript (">> \o DecStr(Len(transcript) + 1)
    \o <<" characters). I can help you with questions about participants, decisions, summaries, specific conversations, and any other details from the meeting. What would you like to know?">>

BootstrapAI(transcript) ==
    <<"I've received and analyzed your meeting transcript (">> \o DecStr(Len(transcript))
    \o <<" characters). I can help you with questions about participants, decisions, summaries, specific conversations, and any other details from the meeting. What would you like to know?">>

BootstrapPair(transcript) == <<Human(BootstrapUser), AI(BootstrapAI(transcript))>>

\* mutant: the membership test is missing, every call creates and seeds
initialize_always_creates(reg, heap, session_id, transcript) ==
    LET m == NewId(heap)
    IN [reg |-> MapPut(reg, session_id, m),
        heap |-> [heap EXCEPT ![m] = [live |-> TRUE, messages |-> BootstrapPair(transcript)]],
        memory |-> m]

\* initialize_session_memory(session_id, transcript) on registry reg and
\* memory heap: the registry, the heap and the memory returned
initialize_session_memory(reg, heap, session_id, transcript) ==
    IF session_id \notin DOMAIN reg
    THEN LET m == NewId(heap)
         IN [reg |-> MapPut(reg, session_id, m),
             heap |-> [heap EXCEPT ![m] = [live |-> TRUE, messages |-> BootstrapPair(transcript)]],
             memory |-> m]
    ELSE [reg |-> reg, heap |-> heap, memory |-> reg[session_id]]

\* the messages update_memory_with_history adds for chat_history: entries
\* whose sender is neither 'user' nor 'bot' fall through both branches
RECURSIVE TranslateHistory(_)
TranslateHistory(chat_history) ==
    IF chat_history = <<>> THEN <<>>
    ELSE LET entry == Head(chat_history)
             rest == TranslateHistory(Tail(chat_history))
         IN IF entry.sender = "user" THEN <<Human(entry.content)>> \o rest
            ELSE IF entry.sender = "bot" THEN <<AI(entry.content)>> \o rest
            ELSE rest

\* mutant: memory.clear() is missing, the entries are added to what is there
update_memory_without_clear(heap, memory, chat_history) ==
    [heap EXCEPT ![memory].messages = @ \o TranslateHistory(chat_history)]

\* update_memory_with_history(memory, chat_history): memory.clear(), then the adds
update_memory_with_history(heap, memory, chat_history) ==
    [heap EXCEPT ![memory].messages = TranslateHistory(chat_history)]

\* mutant: the current entry is not removed
history_with_current(chat_history) == chat_history

\* chat_history[:-1]
history_without_current(chat_history) ==
    SubSeq(chat_history, 1, Len(chat_history) - 1)

\* mutant: the entry is left in the registry
clear_session_memory_keeps(reg, session_id) == reg

\* mutant: the whole registry is cleared (session_memory.clear())
clear_session_memory_all(reg, session_id) == EmptyMap

\* clear_session_memory(session_id)
clear_session_memory(reg, session_id) ==
    IF session_id \in DOMAIN reg THEN MapDel(reg, session_id) ELSE reg

KwSummary == <<"s", "u", "m", "m", "a", "r", "y">>
KwSummarize == <<"s", "u", "m", "m", "a", "r", "i", "z", "e">>
KwParticipants == <<"p", "a", "r", "t", "i", "c", "i", "p", "a", "n", "t", "s">>
KwWho == <<"w", "h", "o">>
KwDecision == <<"d", "e", "c", "i", "s", "i", "o", "n">>
KwDecide == <<"d", "e", "c", "i", "d", "e">>

SummaryGuidance == <<"I can see you're asking for a summary. Please ensure your Google API key is properly configured, and try again.">>
ParticipantsGuidance == <<"I can see you're asking about participants. Please ensure your Google API key is properly configured, and try again.">>
DecisionsGuidance == <<"I can see you're asking about decisions. Please ensure your Google API key is properly configured, and try again.">>
ApologyPrefix == <<"I apologize, but I encountered an error while processing your request: ">>

\* str(e) of the failures the try block can meet
ErrNoKey == <<"GOOGLE_API_KEY environment variable not set">>
ErrTemplate == <<"invalid prompt template">>
ErrLLM == <<"llm call failed">>

error_msg(e) == ApologyPrefix \o e

\* mutant: the query is not lowered before the keywords are looked for
AnyKeywordCaseSensitive(user_message, keywords) ==
    \E k \in keywords : Contains(user_message, k)

\* any(keyword in user_message.lower() for keyword in [...])
AnyKeyword(user_message, keywords) ==
    \E k \in keywords : Contains(LowerStr(user_message), k)

\* mutant: the decision family is tested before the participants family
FallbackTextDecisionFirst(user_message, e) ==
    IF AnyKeyword(user_message, {KwSummary, KwSummarize}) THEN SummaryGuidance
    ELSE IF AnyKeyword(user_message, {KwDecision, KwDecide}) THEN DecisionsGuidance
    ELSE IF AnyKeyword(user_message, {KwParticipants, KwWho}) THEN ParticipantsGuidance
    ELSE error_msg(e)

\* the except branch of respond for a text query: the text it returns
FallbackText(user_message, e) ==
    IF AnyKeyword(user_message, {KwSummary, KwSummarize}) THEN SummaryGuidance
    ELSE IF AnyKeyword(user_message, {KwParticipants, KwWho}) THEN ParticipantsGuidance
    ELSE IF AnyKeyword(user_message, {KwDecision, KwDecide}) THEN DecisionsGuidance
    ELSE error_msg(e)

\* the except branch of respond: user_message.lower() raises AttributeError
\* out of the handler when the message is not a str
Degrade(user_message, e, reg, heap, created, calls) ==
    [phase |-> IF IsStr(user_message) THEN "returned" ELSE "raised",
     outcome |-> IF IsStr(user_message) THEN "Degraded" ELSE "Raised",
     text |-> IF IsStr(user_message) THEN FallbackText(user_message, e) ELSE <<>>,
     error |-> e, reg |-> reg, heap |-> heap, memory |-> 0,
     prompt |-> <<>>, history |-> <<>>, rebuilt |-> FALSE, dropped |-> <<>>,
     llm_created |-> created, llm_calls |-> calls]

\* template.replace("{transcript}", transcript) of enhanced_prompt
enhanced_template(transcript) == Replace(prompt_template, SlotTranscript, transcript)

\* mutant: the memory is fetched (and created) before the transcript is tested
no_transcript_after_memory(session_id, reg, heap) ==
    LET init == initialize_session_memory(reg, heap, session_id, <<>>)
    IN [phase |-> "returned", outcome |-> "NoTranscript", text |-> UploadFirst,
        error |-> <<>>, reg |-> init.reg, heap |-> init.heap, memory |-> 0,
        prompt |-> <<>>, history |-> <<>>, rebuilt |-> FALSE, dropped |-> <<>>,
        llm_created |-> FALSE, llm_calls |-> 0]

\* respond's early return when there is no transcript
no_transcript(session_id, reg, heap) ==
    [phase |-> "returned", outcome |-> "NoTranscript", text |-> UploadFirst,
     error |-> <<>>, reg |-> reg, heap |-> heap, memory |-> 0,
     prompt |-> <<>>, history |-> <<>>, rebuilt |-> FALSE, dropped |-> <<>>,
     llm_created |-> FALSE, llm_calls |-> 0]

\* respond(user_message, session_data) up to the point where the LLM is
\* invoked inside conversation.predict (or to its return, when it gets no
\* further). key: GOOGLE_API_KEY is set. reg, heap: session_memory and the
\* memory objects when the call starts.
respond_begin(user_message, transcript, chat_history, session_id, key, reg, heap) ==
    IF transcript = <<>> THEN no_transcript(session_id, reg, heap)
    ELSE IF ~key THEN Degrade(user_message, ErrNoKey, reg, heap, FALSE, 0)
    ELSE
        LET init == initialize_session_memory(reg, heap, session_id, transcript)
            memory == init.memory
            heap2 == IF chat_history # <<>>
                     THEN update_memory_with_history(init.heap, memory,
                                                     history_without_current(chat_history))
                     ELSE init.heap
            loaded == heap2[memory].messages
            f == Format(enhanced_template(transcript), RenderHistory(loaded),
                        ToText(user_message))
        IN IF ~f.ok THEN Degrade(user_message, ErrTemplate, init.reg, heap2, TRUE, 0)
           ELSE [phase |-> "suspended", outcome |-> "Pending", text |-> <<>>,
                 error |-> <<>>, reg |-> init.reg, heap |-> heap2, memory |-> memory,
                 prompt |-> f.out, history |-> loaded,
                 rebuilt |-> (chat_history # <<>>),
                 dropped |-> IF chat_history # <<>>
                             THEN <<chat_history[Len(chat_history)]>> ELSE <<>>,
                 llm_created |-> TRUE, llm_calls |-> 1]

\* memory.save_context of ConversationChain after a successful LLM call
save_context(heap, memory, user_message, response) ==
    [heap EXCEPT ![memory].messages = @ \o <<Human(user_message), AI(response)>>]

\* respond from the return of the LLM call: result.ok with the response text,
\* or the failure. call is what respond_begin left.
respond_end(call, user_message, session_id, result, reg, heap) ==
    IF result.ok
    THEN [phase |-> "returned", outcome |-> "Answered", text |-> result.text,
          error |-> <<>>,
          reg |-> MapPut(reg, session_id, call.memory),
          heap |-> save_context(heap, call.memory, user_message, result.text),
          memory |-> call.memory, prompt |-> call.prompt, history |-> call.history,
          rebuilt |-> call.rebuilt, dropped |-> call.dropped,
          llm_created |-> TRUE, llm_calls |-> call.llm_calls]
    ELSE [Degrade(user_message, result.error, reg, heap, TRUE, call.llm_calls)
            EXCEPT !.memory = call.memory, !.prompt = call.prompt,
                   !.history = call.history, !.rebuilt = call.rebuilt,
                   !.dropped = call.dropped]

\* ------------------------------------------------- inputs
\* transcripts a client can upload (character level)
TPlain == <<"A", ":", " ", "h", "i", " ", "B", ":", " ", "y", "o">>
TInput == <<"s", "e", "e", " ", "{", "i", "n", "p", "u", "t", "}">>
THistory == <<"x", " ", "{", "h", "i", "s", "t", "o", "r", "y", "}">>
TField == <<"{", "n", "a", "m", "e", "}", " ", "s", "a", "i", "d">>
TEscaped == <<"s", "e", "t", " ", "{", "{", "a", ",", "b", "}", "}">>
TBrace == <<"i", "f", " ", "x", " ", "{", " ", "y", " ", "o", "k">>
TShort == <<"t", "o", "o", " ", "s", "h", "o", "r", "t">>
TOther == <<"C", ":", " ", "o", "k", " ", "D", ":", " ", "n", "o">>

QHi == <<"h", "i">>
QWho == <<"w", "h", "o", "?">>
QWhoUpper == <<"W", "H", "O", "?">>
QSummaryWho == <<"w", "h", "o", " ", "s", "u", "m", "m", "a", "r", "y">>
QSummarize == <<"S", "u", "m", "m", "a", "r", "i", "z", "e">>
QDecideWho == <<"d", "e", "c", "i", "d", "e", " ", "w", "h", "o">>
QDecision == <<"d", "e", "c", "i", "s", "i", "o", "n">>
QParticipants == <<"p", "a", "r", "t", "i", "c", "i", "p", "a", "n", "t", "s">>

\* what the LLM client can do with a prompt
Responses == {<<"R1">>}
LLMResults ==
    {[ok |-> TRUE, text |-> t, error |-> <<>>] : t \in Responses}
    \cup {[ok |-> FALSE, text |-> <<>>, error |-> ErrLLM]}

AllKeys == SessionIds \cup {""}

Entry(sender, content, timestamp) ==
    [sender |-> sender, content |-> content, timestamp |-> timestamp]

\* ------------------------------------------------- state
VARIABLES
    sessions,        \* with_fastapi_backend.sessions: session id -> dict object
    dicts,           \* the per-session dict objects
    session_memory,  \* engine.session_memory: session id -> memory object
    memories,        \* the ConversationBufferMemory objects
    inflight,        \* respond calls suspended at the LLM call
    clock,           \* datetime.now(), one tick per accepted request
    api_key,         \* GOOGLE_API_KEY is set
    response,        \* the HTTP response sent last
    last,            \* the engine call made for it (NoCall when it made none)
    seeded,          \* per session id, how often a bootstrap pair was seeded
    probe            \* SpecEngine: the query and transcript its caller uses

vars == <<sessions, dicts, session_memory, memories, inflight, clock, api_key,
          last, response, seeded, probe>>

NoArgs == [user_message |-> <<>>, transcript |-> <<>>, chat_history |-> <<>>,
           session_id |-> ""]
NoCall == [op |-> "none", rid |-> 0, args |-> NoArgs, phase |-> "none",
           outcome |-> "none", text |-> <<>>, error |-> <<>>, memory |-> 0,
           prompt |-> <<>>, history |-> <<>>, rebuilt |-> FALSE, dropped |-> <<>>,
           llm_created |-> FALSE, llm_calls |-> 0, user_entry |-> <<>>]

\* what is kept of a respond call: its arguments and what it did
CallRecord(op, rid, args, c, user_entry) ==
    [op |-> op, rid |-> rid, args |-> args, phase |-> c.phase,
     outcome |-> c.outcome, text |-> c.text, error |-> c.error, memory |-> c.memory,
     prompt |-> c.prompt, history |-> c.history, rebuilt |-> c.rebuilt,
     dropped |-> c.dropped, llm_created |-> c.llm_created,
     llm_calls |-> c.llm_calls, user_entry |-> user_entry]

Request(via, session_data, call) ==
    [via |-> via, session_data |-> session_data, call |-> call]

NoResponse == [status |-> 0, kind |-> "none", session_id |-> "", text |-> <<>>, count |-> 0]
Resp(status, kind, session_id, text, count) ==
    [status |-> status, kind |-> kind, session_id |-> session_id, text |-> text,
     count |-> count]

\* objects nothing refers to any more are collected
LiveMemories(reg, reqs) == MapRange(reg) \cup {r.call.memory : r \in reqs}
LiveDicts(ses, reqs) == MapRange(ses) \cup {r.session_data : r \in reqs}
Collect(heap, liveIds, free) ==
    [o \in DOMAIN heap |-> IF o \in liveIds THEN heap[o] ELSE free]

Seed(k) == [seeded EXCEPT ![k] = @ + 1]

TypeOK ==
    /\ DOMAIN sessions \subseteq SessionIds
    /\ MapRange(sessions) \subseteq DictIds
    /\ DOMAIN session_memory \subseteq AllKeys
    /\ MapRange(session_memory) \subseteq MemIds
    /\ clock \in 0..(MaxClock + MaxEngineCalls)
    /\ api_key \in BOOLEAN
    /\ Cardinality(inflight) <= MaxInFlight

InitCommon ==
    /\ sessions = EmptyMap
    /\ dicts = [o \in DictIds |-> FreeDict]
    /\ session_memory = EmptyMap
    /\ memories = [o \in MemIds |-> FreeMemory]
    /\ inflight = {}
    /\ clock = 0
    /\ api_key \in BOOLEAN
    /\ last = NoCall
    /\ response = NoResponse
    /\ seeded = [k \in AllKeys |-> 0]

Init ==
    /\ InitCommon
    /\ probe = [user_message |-> <<>>, transcript |-> <<>>]

\* ------------------------------------------------- with_fastapi_backend.py
UploadTranscripts == {<<>>, TShort, TPlain, TField}
\* ... and on the host that overlaps requests: two transcripts prompts are built from
ConcTranscripts == {<<>>, TShort, TPlain, TOther}
ConcMessages == {<<>>, QWho}
ChatMessages == {<<>>, QWho, JsonNumber}

\* str(uuid.uuid4()): an id nothing uses yet
FreshIds == SessionIds \ (DOMAIN sessions \cup DOMAIN session_memory
                          \cup {r.call.args.session_id : r \in inflight})

\* POST /upload
upload_transcript(transcript, given_id, limit) ==
    \E session_id \in IF given_id = "" THEN FreshIds ELSE {given_id} :
        IF transcript = <<>>
        THEN /\ response' = Resp(400, "Transcript is required", "", <<>>, 0)
             /\ last' = NoCall
             /\ UNCHANGED <<sessions, dicts, session_memory, memories, inflight, clock,
                            api_key, seeded, probe>>
        ELSE IF Len(transcript) < MinTranscriptLen
        THEN /\ response' = Resp(400, "Transcript too short", "", <<>>, 0)
             /\ last' = NoCall
             /\ UNCHANGED <<sessions, dicts, session_memory, memories, inflight, clock,
                            api_key, seeded, probe>>
        ELSE /\ clock < limit
             /\ clock' = clock + 1
             /\ LET d == NewId(dicts)
                    ses == MapPut(sessions, session_id, d)
                    heap == [dicts EXCEPT ![d] =
                                [live |-> TRUE, transcript |-> transcript,
                                 chat_history |-> <<>>, created_at |-> clock,
                                 last_activity |-> clock]]
                IN /\ sessions' = ses
                   /\ dicts' = Collect(heap, LiveDicts(ses, inflight), FreeDict)
             /\ response' = Resp(200, "Transcript uploaded successfully", session_id,
                                 <<>>, Len(transcript))
             /\ last' = NoCall
             /\ UNCHANGED <<session_memory, memories, inflight, api_key, seeded, probe>>

Upload == \E transcript \in UploadTranscripts, given_id \in AllKeys :
              upload_transcript(transcript, given_id, MaxClock)

UploadConc == \E transcript \in ConcTranscripts, given_id \in AllKeys :
                  upload_transcript(transcript, given_id, MaxConcClock)

\* mutant: respond is handed a copy of the history taken before the append
ChatPrepCopiedHistory(message, session_id) ==
    LET d == sessions[session_id]
        user_entry == Entry("user", message, clock)
        heap1 == [dicts EXCEPT ![d].last_activity = clock,
                               ![d].chat_history = Append(@, user_entry)]
        args == [user_message |-> message, transcript |-> dicts[d].transcript,
                 chat_history |-> dicts[d].chat_history, session_id |-> session_id]
        call == respond_begin(message, args.transcript, args.chat_history,
                              session_id, api_key, session_memory, memories)
    IN [d |-> d, heap |-> heap1, call |-> call,
        rec |-> CallRecord("respond", clock, args, call, <<user_entry>>)]

\* mutant: respond drops the current entry from the session's own list
\* (chat_history.pop()) instead of slicing a copy
ChatPrepRespondPops(message, session_id) ==
    LET d == sessions[session_id]
        user_entry == Entry("user", message, clock)
        heap1 == [dicts EXCEPT ![d].last_activity = clock,
                               ![d].chat_history = Append(@, user_entry)]
        args == [user_message |-> message, transcript |-> dicts[d].transcript,
                 chat_history |-> heap1[d].chat_history, session_id |-> session_id]
        call == respond_begin(message, args.transcript, args.chat_history,
                              session_id, api_key, session_memory, memories)
    IN [d |-> d,
        heap |-> IF call.rebuilt
                 THEN [heap1 EXCEPT ![d].chat_history =
                                        history_without_current(@)]
                 ELSE heap1,
        call |-> call,
        rec |-> CallRecord("respond", clock, args, call, <<user_entry>>)]

\* what chat does before it calls respond, and respond up to the LLM call
ChatPrep(message, session_id) ==
    LET d == sessions[session_id]
        user_entry == Entry("user", message, clock)
        heap1 == [dicts EXCEPT ![d].last_activity = clock,
                               ![d].chat_history = Append(@, user_entry)]
        args == [user_message |-> message, transcript |-> dicts[d].transcript,
                 chat_history |-> heap1[d].chat_history, session_id |-> session_id]
        call == respond_begin(message, args.transcript, args.chat_history,
                              session_id, api_key, session_memory, memories)
    IN [d |-> d, heap |-> heap1, call |-> call,
        rec |-> CallRecord("respond", clock, args, call, <<user_entry>>)]

\* what chat does once respond has returned (or raised) with `call`: the bot
\* entry and the 200 response, or the 500 response of its except branch
ChatFinish(call, begun, d, heap, reqs) ==
    LET rec == CallRecord("respond", begun.rid, begun.args, call, begun.user_entry)
        bot_entry == Entry("bot", call.text, clock)
        heap2 == IF call.phase = "returned"
                 THEN [heap EXCEPT ![d].chat_history = Append(@, bot_entry)]
                 ELSE heap
    IN /\ inflight' = reqs
       /\ session_memory' = call.reg
       /\ memories' = Collect(call.heap, LiveMemories(call.reg, reqs), FreeMemory)
       /\ dicts' = Collect(heap2, LiveDicts(sessions, reqs), FreeDict)
       /\ last' = rec
       /\ response' = IF call.phase = "returned"
                      THEN Resp(200, "response", rec.args.session_id, call.text, 0)
                      ELSE Resp(500, "Chat error", "", <<>>, 0)

ChatRejected(message, session_id) ==
    message = <<>> \/ session_id = "" \/ session_id \notin DOMAIN sessions

chat_reject(message, session_id) ==
    /\ response' = IF message = <<>> \/ session_id = ""
                   THEN Resp(400, "Message and session_id are required", "", <<>>, 0)
                   ELSE Resp(404, "Session not found", "", <<>>, 0)
    /\ last' = NoCall
    /\ UNCHANGED <<sessions, dicts, session_memory, memories, inflight, clock,
                   api_key, seeded, probe>>

\* POST /chat as the event loop runs it: respond is a blocking call, so the
\* handler runs from the request to the response in one step
chat(message, session_id, limit) ==
    IF ChatRejected(message, session_id) THEN chat_reject(message, session_id)
    ELSE
        \E p \in {ChatPrep(message, session_id)} :
           /\ clock < limit
           /\ clock' = clock + 1
           /\ seeded' = IF p.call.reg # session_memory THEN Seed(session_id) ELSE seeded
           /\ UNCHANGED <<sessions, api_key, probe>>
           /\ \E result \in LLMResults :
              \E call \in {IF p.call.phase = "suspended"
                           THEN respond_end(p.rec, message, session_id, result,
                                            p.call.reg, p.call.heap)
                           ELSE p.call} :
                ChatFinish(call, p.rec, p.d, p.heap, inflight)

Chat == \E message \in ChatMessages, session_id \in AllKeys :
            chat(message, session_id, MaxClock)

\* POST /chat for a host that overlaps requests while the LLM call blocks:
\* from the request to the LLM call inside respond (to the response, when
\* respond gets no further)
chat_begin(message, session_id, limit) ==
    IF ChatRejected(message, session_id) THEN chat_reject(message, session_id)
    ELSE
        \E p \in {ChatPrep(message, session_id)} :
           /\ clock < limit
           /\ clock' = clock + 1
           /\ seeded' = IF p.call.reg # session_memory THEN Seed(session_id) ELSE seeded
           /\ UNCHANGED <<sessions, api_key, probe>>
           /\ IF p.call.phase = "suspended"
              THEN /\ Cardinality(inflight) < MaxInFlight
                   /\ inflight' = inflight \cup {Request("chat", p.d, p.rec)}
                   /\ dicts' = p.heap
                   /\ session_memory' = p.call.reg
                   /\ memories' = p.call.heap
                   /\ UNCHANGED <<last, response>>
              ELSE ChatFinish(p.call, p.rec, p.d, p.heap, inflight)

ChatBegin == \E message \in ConcMessages, session_id \in AllKeys :
                 chat_begin(message, session_id, MaxConcClock)

\* ... and from the return of the LLM call to the response
chat_resume(r, result) ==
    \E call \in {respond_end(r.call, r.call.args.user_message, r.call.args.session_id,
                              result, session_memory, memories)} :
       /\ ChatFinish(call, r.call, r.session_data, dicts, inflight \ {r})
       /\ UNCHANGED <<sessions, clock, api_key, seeded, probe>>

ChatEnd == \E r \in inflight, result \in LLMResults :
               /\ r.via = "chat"
               /\ chat_resume(r, result)

\* DELETE /session/{session_id}
delete_session(session_id) ==
    IF session_id \in DOMAIN sessions
    THEN LET ses == MapDel(sessions, session_id)
             reg == clear_session_memory(session_memory, session_id)
         IN /\ sessions' = ses
            /\ dicts' = Collect(dicts, LiveDicts(ses, inflight), FreeDict)
            /\ session_memory' = reg
            /\ memories' = Collect(memories, LiveMemories(reg, inflight), FreeMemory)
            /\ response' = Resp(200, "Session deleted successfully", session_id, <<>>, 0)
            /\ last' = NoCall
            /\ UNCHANGED <<inflight, clock, api_key, seeded, probe>>
    ELSE /\ response' = Resp(404, "Session not found", "", <<>>, 0)
         /\ last' = NoCall
         /\ UNCHANGED <<sessions, dicts, session_memory, memories, inflight, clock,
                        api_key, seeded, probe>>

DeleteSession == \E session_id \in SessionIds : delete_session(session_id)

\* mutant: the entries of the memory registry are counted
session_count_of_registry == Cardinality(DOMAIN session_memory)

\* session_count = len(sessions)
session_count == Cardinality(DOMAIN sessions)

\* POST /clear-all
clear_all_sessions ==
    /\ sessions' = EmptyMap
    /\ dicts' = Collect(dicts, LiveDicts(EmptyMap, inflight), FreeDict)
    /\ session_memory' = EmptyMap
    /\ memories' = Collect(memories, LiveMemories(EmptyMap, inflight), FreeMemory)
    /\ response' = Resp(200, "Cleared sessions successfully", "", <<>>, session_count)
    /\ last' = NoCall
    /\ UNCHANGED <<inflight, clock, api_key, seeded, probe>>

ClearAll == clear_all_sessions

\* the application as uvicorn runs it: one handler at a time
Next == Upload \/ Chat \/ DeleteSession \/ ClearAll

Spec == Init /\ [][Next]_vars

\* the application on a host whose requests overlap at the LLM call
NextConc == UploadConc \/ ChatBegin \/ ChatEnd \/ DeleteSession \/ ClearAll

SpecConc == Init /\ [][NextConc]_vars

\* ------------------------------------------------- the engine called directly
\* chatbot/engine.py is a module of plain functions; SpecEngine drives them as
\* any caller may, with the arguments of its choice. One behaviour uses one
\* query and one transcript (probe) and any of the histories below.
Queries == {QHi, QWho, QWhoUpper, QSummaryWho, QSummarize, QDecideWho, QDecision,
            QParticipants}
Transcripts == {TPlain, TShort, TInput, THistory, TField, TEscaped, TBrace}

Probes ==
    {[user_message |-> q, transcript |-> TPlain] : q \in Queries \cup {JsonNumber}}
    \cup {[user_message |-> QHi, transcript |-> t] : t \in Transcripts \cup {<<>>}}
    \cup {[user_message |-> QWho, transcript |-> <<>>]}

EngineIds == {"s1", ""}

Histories(user_message) ==
    {<<>>,
     <<Entry("user", user_message, 0)>>,
     <<Entry("user", QHi, 0), Entry("bot", <<"R1">>, 0), Entry("user", user_message, 0)>>,
     <<Entry("user", QHi, 0), Entry("system", <<"note">>, 0), Entry("user", user_message, 0)>>}

InitEngine ==
    /\ InitCommon
    /\ probe \in Probes

EngineCall(op, args, memory) ==
    [NoCall EXCEPT !.op = op, !.rid = clock, !.args = args, !.phase = "returned",
                   !.memory = memory]

\* respond(user_message, session_data), the LLM call included
EngRespond ==
    \E chat_history \in Histories(probe.user_message), session_id \in EngineIds,
       result \in LLMResults :
        LET args == [user_message |-> probe.user_message, transcript |-> probe.transcript,
                     chat_history |-> chat_history, session_id |-> session_id]
        IN
        \E begun \in {respond_begin(args.user_message, args.transcript, chat_history,
                                    session_id, api_key, session_memory, memories)} :
        \E call \in {IF begun.phase = "suspended"
                     THEN respond_end(begun, args.user_message, session_id, result,
                                      begun.reg, begun.heap)
                     ELSE begun} :
           /\ clock < MaxEngineCalls
           /\ clock' = clock + 1
           /\ session_memory' = call.reg
           /\ memories' = Collect(call.heap, LiveMemories(call.reg, {}), FreeMemory)
           /\ seeded' = IF begun.reg # session_memory THEN Seed(session_id) ELSE seeded
           /\ last' = CallRecord("respond", clock, args, call, <<>>)
           /\ UNCHANGED <<sessions, dicts, inflight, api_key, response, probe>>

\* initialize_session_memory(session_id, transcript)
EngInitialize ==
    \E session_id \in EngineIds :
        LET init == initialize_session_memory(session_memory, memories, session_id,
                                              probe.transcript)
        IN /\ clock < MaxEngineCalls
           /\ clock' = clock + 1
           /\ session_memory' = init.reg
           /\ memories' = init.heap
           /\ seeded' = IF init.reg # session_memory THEN Seed(session_id) ELSE seeded
           /\ last' = EngineCall("initialize_session_memory",
                                 [NoArgs EXCEPT !.session_id = session_id,
                                                !.transcript = probe.transcript],
                                 init.memory)
           /\ UNCHANGED <<sessions, dicts, inflight, api_key, response, probe>>

\* update_memory_with_history(memory, chat_history) on a memory of the registry
EngUpdate ==
    \E session_id \in DOMAIN session_memory, chat_history \in Histories(probe.user_message) :
        /\ clock < MaxEngineCalls
        /\ clock' = clock + 1
        /\ memories' = update_memory_with_history(memories, session_memory[session_id],
                                                  chat_history)
        /\ last' = EngineCall("update_memory_with_history",
                              [NoArgs EXCEPT !.session_id = session_id,
                                             !.chat_history = chat_history],
                              session_memory[session_id])
        /\ UNCHANGED <<sessions, dicts, session_memory, inflight, api_key, response,
                       seeded, probe>>

\* clear_session_memory(session_id)
EngClear ==
    \E session_id \in EngineIds :
        LET reg == clear_session_memory(session_memory, session_id)
        IN /\ clock < MaxEngineCalls
           /\ clock' = clock + 1
           /\ session_memory' = reg
           /\ memories' = Collect(memories, LiveMemories(reg, {}), FreeMemory)
           /\ last' = EngineCall("clear_session_memory",
                                 [NoArgs EXCEPT !.session_id = session_id], 0)
           /\ UNCHANGED <<sessions, dicts, inflight, api_key, response, seeded, probe>>

NextEngine == EngRespond \/ EngInitialize \/ EngUpdate \/ EngClear

SpecEngine == InitEngine /\ [][NextEngine]_vars

\* ------------------------------------------------- vocabulary of the claims
Front(h) == SubSeq(h, 1, Len(h) - 1)

\* the role translation user -> user (human), bot -> assistant (ai), entry by entry
RoleTranslate(h) ==
    [i \in 1..Len(h) |-> [role |-> IF h[i].sender = "user" THEN "human" ELSE "ai",
                          content |-> h[i].content]]

WellFormed(h) == \A i \in 1..Len(h) : h[i].sender \in {"user", "bot"}

EndsWith(s, tail) ==
    /\ Len(tail) <= Len(s)
    /\ SubSeq(s, Len(s) - Len(tail) + 1, Len(s)) = tail

\* the respond calls the state knows: the one that returned last, and those
\* suspended at the LLM call
Calls == {r.call : r \in inflight} \cup (IF last.op = "respond" THEN {last} ELSE {})

Messages(session_id) == memories[session_memory[session_id]].messages

IsBootstrapAck(m) ==
    \E t \in Transcripts \cup UploadTranscripts : m = AI(BootstrapAI(t))

Occurrences(ms) ==
    Cardinality({i \in 1..(Len(ms) - 1) :
                    ms[i] = Human(BootstrapUser) /\ IsBootstrapAck(ms[i + 1])})

\* ------------------------------------------------- C1
\* C1 (as claimed): every memory of the registry starts with the bootstrap
\* pair (user upload notice, assistant acknowledgment), and holds it once.
C1_BootstrapPairFirstAndOnce ==
    \A k \in DOMAIN session_memory :
        /\ Len(Messages(k)) >= 2
        /\ Messages(k)[1] = Human(BootstrapUser)
        /\ IsBootstrapAck(Messages(k)[2])
        /\ Occurrences(Messages(k)) = 1

\* ------------------------------------------------- C2
\* C2: a respond call with a non-empty external history assembles its prompt
\* from the role translation of that history without its final entry, entry
\* for entry, and the prompt's input slot holds the query as given.
C2_MemoryIsHistoryWithoutLast ==
    \A c \in Calls :
        (c.args.chat_history # <<>> /\ c.llm_calls = 1) =>
            /\ c.history = RoleTranslate(Front(c.args.chat_history))
            /\ EndsWith(c.prompt, PQuery \o ToText(c.args.user_message) \o PTail)
            /\ EndsWith(SubSeq(c.prompt, 1, Len(c.prompt) - Len(PQuery)
                                            - Len(ToText(c.args.user_message)) - Len(PTail)),
                        PHistory \o RenderHistory(RoleTranslate(Front(c.args.chat_history))))

C2_Witness ==
    /\ last.op = "respond"
    /\ last.outcome = "Answered"
    /\ Len(last.args.chat_history) = 3
    /\ Len(last.history) = 2

\* ------------------------------------------------- C3
\* C3: in every chat turn, whatever other requests overlap it, the entry
\* respond drops is the user entry this turn appended, and the history put in
\* the prompt is the translation of the other entries only.
C3_OwnMessageNotInHistory ==
    \A c \in Calls :
        (c.user_entry # <<>> /\ c.llm_calls = 1) =>
            /\ c.dropped = c.user_entry
            /\ c.history = RoleTranslate(SelectSeq(c.args.chat_history,
                                                   LAMBDA e : e # c.user_entry[1]))

C3_Witness ==
    \E r1, r2 \in inflight :
        /\ r1 # r2
        /\ r1.session_data = r2.session_data
        /\ r1.call.rid < r2.call.rid
        /\ r2.call.history = <<Human(r1.call.args.user_message)>>
        /\ r2.call.dropped = r2.call.user_entry

\* ------------------------------------------------- C4
\* what a respond call leaves in a memory it created itself
FreshMemoryAfter(c) ==
    IF c.outcome = "Answered"
    THEN RoleTranslate(Front(c.args.chat_history))
         \o <<Human(c.args.user_message), AI(c.text)>>
    ELSE RoleTranslate(Front(c.args.chat_history))

\* C4: deleting a session removes its registry entry, and the entry comes back
\* only by a getOrCreate that finds none and seeds a fresh memory: what that
\* memory then holds is what the call built from its own session's history.
C4_DeleteThenFreshMemory ==
    [][/\ (response'.kind = "Session deleted successfully" /\ response' # response)
            => response'.session_id \notin DOMAIN session_memory'
       /\ \A k \in AllKeys :
            (k \notin DOMAIN session_memory /\ k \in DOMAIN session_memory') =>
                /\ seeded'[k] = seeded[k] + 1
                /\ last'.op = "respond"
                /\ last'.args.session_id = k
                /\ Messages(k)' = FreshMemoryAfter(last')]_vars

C4_Witness ==
    \E k \in DOMAIN session_memory :
        /\ seeded[k] = 2
        /\ last.op = "respond"
        /\ last.args.session_id = k
        /\ Len(last.args.chat_history) = 1

\* ------------------------------------------------- C5
\* C5: with an empty (or absent) transcript respond returns the fixed
\* upload-first text whatever the query, creates and invokes no LLM client, and
\* leaves the registry and its memories as they were.
C5_NoTranscriptTouchesNothing ==
    [][(clock' # clock /\ last'.op = "respond" /\ last'.args.transcript = <<>>) =>
            /\ last'.outcome = "NoTranscript"
            /\ last'.phase = "returned"
            /\ last'.text = UploadFirst
            /\ ~last'.llm_created
            /\ last'.llm_calls = 0
            /\ session_memory' = session_memory
            /\ memories' = memories]_vars

C5_Witness ==
    /\ last.op = "respond"
    /\ last.args.transcript = <<>>
    /\ last.args.user_message = QWho
    /\ last.text = UploadFirst
    /\ session_memory # EmptyMap

\* ------------------------------------------------- C6
\* C6 (as claimed): every respond call ends in exactly one of NoTranscript,
\* Answered, Degraded, returns text to its caller (never raises), and invokes
\* the LLM at most once.
C6_OneOutcomeTextNoRaise ==
    last.op = "respond" =>
        /\ last.outcome \in {"NoTranscript", "Answered", "Degraded"}
        /\ last.phase = "returned"
        /\ last.llm_calls <= 1

C8_SinglePassSubstitution ==
    \A c \in Calls :
        (c.args.transcript # <<>> /\ c.llm_created) =>
            /\ c.error # ErrTemplate
            /\ c.llm_calls = 1 =>
                c.prompt = PHead \o c.args.transcript \o PHistory
                           \o RenderHistory(c.history) \o PQuery
                           \o ToText(c.args.user_message) \o PTail

\* ------------------------------------------------- C9
\* C9 (as claimed): over the registry's lifetime the bootstrap pair is seeded
\* at most once per session id.
C9_SeededAtMostOncePerId == \A k \in AllKeys : seeded[k] <= 1

\* C9 (amended): getOrCreate seeds exactly when the id has no entry (so once
\* per entry, again after the entry was cleared), and a call for an id that
\* has an entry returns that entry and changes no turn.
C9_SeedsOnlyWhenAbsent ==
    [][/\ \A k \in AllKeys :
            seeded'[k] # seeded[k] =>
                /\ k \notin DOMAIN session_memory
                /\ k \in DOMAIN session_memory'
                /\ seeded'[k] = seeded[k] + 1
       /\ (clock' # clock /\ last'.op = "initialize_session_memory") =>
            IF last'.args.session_id \in DOMAIN session_memory
            THEN /\ session_memory' = session_memory
                 /\ memories' = memories
                 /\ seeded' = seeded
                 /\ last'.memory = session_memory[last'.args.session_id]
            ELSE /\ seeded'[last'.args.session_id] = seeded[last'.args.session_id] + 1
                 /\ last'.memory = session_memory'[last'.args.session_id]
                 /\ ~memories[last'.memory].live]_vars

C9_Witness ==
    /\ last.op = "initialize_session_memory"
    /\ seeded[last.args.session_id] = 1
    /\ Len(memories[last.memory].messages) = 4

\* ------------------------------------------------- C10
\* the number a decimal digit string states
DigitValue(c) == CHOOSE d \in 0..9 : Digit(d) = c
RECURSIVE ParseDec(_)
ParseDec(ds) ==
    IF ds = <<>> THEN 0
    ELSE 10 * ParseDec(SubSeq(ds, 1, Len(ds) - 1)) + DigitValue(ds[Len(ds)])

\* C10: right after getOrCreate created a memory for an id without entry, the
\* memory holds two turns: the user upload notice, then the assistant
\* acknowledgment, whose character count is the length of the transcript given.
C10_CreatedWithBootstrapPair ==
    [][(clock' # clock /\ last'.op = "initialize_session_memory"
            /\ last'.args.session_id \notin DOMAIN session_memory) =>
        LET ms == memories'[last'.memory].messages
        IN /\ Len(ms) = 2
           /\ ms[1].role = "human"
           /\ ms[1].content = BootstrapUser
           /\ ms[2].role = "ai"
           /\ Len(ms[2].content) >= 3
           /\ ParseDec(SubSeq(ms[2].content, 2, Len(ms[2].content) - 1))
                = Len(last'.args.transcript)]_vars

C10_Witness ==
    /\ last.op = "initialize_session_memory"
    /\ Len(last.args.transcript) = 11
    /\ seeded[last.args.session_id] = 2
    /\ memories[last.memory].messages = BootstrapPair(last.args.transcript)

\* ------------------------------------------------- C11
\* C11: update_memory_with_history is idempotent: whatever the memory held
\* before, applying it again with the same history leaves the memory with the
\* same turns, and so the same rendered text, as the first application did.
C11_RebuildIdempotent ==
    [][/\ (clock' # clock /\ last'.op = "update_memory_with_history") =>
            LET again == update_memory_with_history(memories', last'.memory,
                                                    last'.args.chat_history)
            IN /\ again = memories'
               /\ RenderHistory(again[last'.memory].messages)
                    = RenderHistory(memories'[last'.memory].messages)
       /\ (clock' # clock /\ last.op = "update_memory_with_history"
             /\ last'.op = "update_memory_with_history"
             /\ last'.args = last.args /\ last'.memory = last.memory)
            => memories' = memories]_vars

C11_Witness ==
    /\ last.op = "update_memory_with_history"
    /\ last.rid = 2
    /\ Len(last.args.chat_history) = 3
    /\ WellFormed(last.args.chat_history)
    /\ memories[last.memory].messages = RoleTranslate(last.args.chat_history)

\* ------------------------------------------------- C12
\* C12 (as claimed): clear-all empties the memory registry and reports the
\* number of registry entries it removed.
C12_ClearAllCountsRegistry ==
    [][response'.kind = "Cleared sessions successfully" =>
        /\ session_memory' = EmptyMap
        /\ response'.count = Cardinality(DOMAIN session_memory)]_vars

\* C12 (amended): clear-all empties the memory registry and the session
\* store, and the number it reports is the number of sessions the session
\* store held, whatever the number of registry entries was.
C12_ClearAllCountsSessions ==
    [][response'.kind = "Cleared sessions successfully" =>
        /\ session_memory' = EmptyMap
        /\ sessions' = EmptyMap
        /\ response'.count = Cardinality(DOMAIN sessions)]_vars

C12_Witness ==
    /\ response.kind = "Cleared sessions successfully"
    /\ response.count = 2
    /\ session_memory = EmptyMap
    /\ \E k \in SessionIds : seeded[k] = 1
    /\ \E k \in SessionIds : seeded[k] = 0

\* ------------------------------------------------- C13
\* C13: a respond call, whatever its outcome, leaves the transcript and the
\* chat history of the session it was called for as they were when it
\* started; over a whole chat turn the history grows by the user entry chat
\* appended before the call and the bot entry it appends after it.
C13_RespondLeavesStoreAlone ==
    [][(clock' # clock /\ last'.op = "respond") =>
        LET d == sessions[last'.args.session_id]
            started == dicts[d].chat_history \o last'.user_entry
        IN /\ sessions' = sessions
           /\ last'.args.chat_history = started
           /\ last'.args.transcript = dicts[d].transcript
           /\ dicts'[d].transcript = dicts[d].transcript
           /\ dicts'[d].chat_history =
                IF last'.phase = "returned"
                THEN started \o <<Entry("bot", last'.text, clock)>>
                ELSE started]_vars

C13_Witness ==
    \E k \in DOMAIN sessions :
        /\ last.op = "respond"
        /\ last.args.session_id = k
        /\ last.outcome = "Answered"
        /\ last.rebuilt
        /\ Len(last.args.chat_history) = 3
        /\ Len(dicts[sessions[k]].chat_history) = 4
        /\ dicts[sessions[k]].transcript = last.args.transcript

C15_RegistryEntryAfterRespond ==
    (last.op = "respond" /\ last.args.transcript # <<>>
        /\ last.outcome \in {"Answered", "Degraded"})
    => last.args.session_id \in DOMAIN session_memory

\* ------------------------------------------------- C16
\* C16 (as claimed): as long as a session id stays in the session store, no
\* operation, a further upload with the same id included, changes the
\* transcript of its session.
C16_TranscriptImmutable ==
    [][\A k \in DOMAIN sessions \cap DOMAIN sessions' :
            dicts'[sessions'[k]].transcript = dicts[sessions[k]].transcript]_vars

SessionView(k) ==
    [memory |-> IF k \in DOMAIN session_memory THEN <<Messages(k)>> ELSE <<>>,
     store |-> IF k \in DOMAIN sessions
               THEN <<dicts[sessions[k]].transcript, dicts[sessions[k]].chat_history>>
               ELSE <<>>]

\* the session ids the request served by this step names: a chat turn that
\* begins, ends, or runs through; a delete; an upload
ActingIds ==
    {r.call.args.session_id : r \in (inflight' \ inflight) \cup (inflight \ inflight')}
    \cup (IF last' # last /\ last'.op = "respond" THEN {last'.args.session_id} ELSE {})
    \cup (IF response'.kind \in {"Session deleted successfully",
                                 "Transcript uploaded successfully"}
              /\ sessions' # sessions
           THEN {response'.session_id} ELSE {})

C19_HistoryAlternates ==
    /\ \A k \in DOMAIN sessions :
        LET h == dicts[sessions[k]].chat_history
        IN /\ \A i \in 1..Len(h) :
                h[i].sender = IF i % 2 = 1 THEN "user" ELSE "bot"
           /\ (\A r \in inflight : r.session_data # sessions[k]) => Len(h) % 2 = 0
    /\ (last.op = "respond" /\ last.phase = "returned"
          /\ \A r \in inflight : r.call.args.session_id # last.args.session_id) =>
        LET h == dicts[sessions[last.args.session_id]].chat_history
        IN /\ Len(h) >= 2
           /\ h[Len(h)].sender = "bot"
           /\ h[Len(h)].content = last.text
           /\ h[Len(h) - 1] = last.user_entry[1]

\* ------------------------------------------------- C20
\* C20 (as claimed): whenever no chat turn of a session is in flight, the
\* registry memory of the session, if there is one, is the role translation
\* of a prefix of the session's chat history as it is now, and of the whole
\* history right after an Answered turn.
C20_MemoryIsPrefixOfHistory ==
    /\ \A k \in DOMAIN session_memory :
        (\A r \in inflight : r.call.args.session_id # k) =>
            /\ k \in DOMAIN sessions
            /\ \E n \in 0..Len(dicts[sessions[k]].chat_history) :
                    Messages(k) = RoleTranslate(SubSeq(dicts[sessions[k]].chat_history, 1, n))
    /\ (last.op = "respond" /\ last.outcome = "Answered"
          /\ \A r \in inflight : r.call.args.session_id # last.args.session_id) =>
            Messages(last.args.session_id)
                = RoleTranslate(dicts[sessions[last.args.session_id]].chat_history)

====
